---- MODULE Spec2Model ----
(***************************************************************************)
(* Model of the AI code-review GitHub Action (src/unnamed/part_002):       *)
(* the file filter shouldExcludeFile, the prompt builder                   *)
(* createReviewPrompt, the model client getGeminiReview and the            *)
(* orchestrator run().                                                     *)
(*                                                                         *)
(* Strings the program inspects character by character (filenames,         *)
(* patterns) are looked up in Chars; multi-line texts (prompt, comment     *)
(* body) are sequences of lines; a patch text is represented by its        *)
(* presence and its length, the only properties of it the program reads.   *)
(* Pictographs of the log and comment literals are left out of the string  *)
(* literals, and the code fence of a per-file block is written <fence>.    *)
(* core.setFailed (of @actions/core) records the failure and writes its    *)
(* message to the error log.  run() is cut at its awaits: each action is   *)
(* the code between one await and the next.                                *)
(***************************************************************************)
EXTENDS Integers, Sequences, FiniteSets, TLC

\* ------------------------------------------------------------------ bounds
\* longest list of changed files the source-control service returns
MaxFiles == 5
\* longest file list handed to createReviewPrompt on its own
MaxPromptFiles == 2
\* largest per-file change count in the lists handed to createReviewPrompt
MaxChanges == 2

\* ---------------------------------------------------------- value encoding
\* JavaScript undefined / null of an optional string
Undefined == "<undefined>"

\* truthiness of an optional string: undefined and "" are falsy
Truthy(s) == s # Undefined /\ s # ""

\* ${x} of an optional string inside a template literal
Str(s) == IF s = Undefined THEN "undefined" ELSE s

\* an optional patch text: absent, or a text of the given length
NoPatch == [present |-> FALSE, length |-> 0]

PatchOf(n) == [present |-> TRUE, length |-> n]

\* if (file.patch): the patch is present and not the empty string
PatchTruthy(patch) == patch.present /\ patch.length > 0

\* ${file.patch}: the raw diff text, verbatim
PatchText(patch) ==
  IF patch.present THEN "<diff of " \o ToString(patch.length) \o " characters>"
  ELSE "undefined"

\* the characters of the filenames and pattern literals used below
Chars ==
  "yarn.lock" :> <<"y", "a", "r", "n", ".", "l", "o", "c", "k">> @@
  "package-lock.json" :> <<"p", "a", "c", "k", "a", "g", "e", "-", "l", "o", "c", "k", ".", "j", "s", "o", "n">> @@
  "pnpm-lock.yaml" :> <<"p", "n", "p", "m", "-", "l", "o", "c", "k", ".", "y", "a", "m", "l">> @@
  "Cargo.lock" :> <<"C", "a", "r", "g", "o", ".", "l", "o", "c", "k">> @@
  "app.min.js" :> <<"a", "p", "p", ".", "m", "i", "n", ".", "j", "s">> @@
  "site.min.css" :> <<"s", "i", "t", "e", ".", "m", "i", "n", ".", "c", "s", "s">> @@
  "main.bundle.js" :> <<"m", "a", "i", "n", ".", "b", "u", "n", "d", "l", "e", ".", "j", "s">> @@
  "src/index.ts" :> <<"s", "r", "c", "/", "i", "n", "d", "e", "x", ".", "t", "s">> @@
  "README.md" :> <<"R", "E", "A", "D", "M", "E", ".", "m", "d">> @@
  "admin.js" :> <<"a", "d", "m", "i", "n", ".", "j", "s">> @@
  "x.lock.ts" :> <<"x", ".", "l", "o", "c", "k", ".", "t", "s">> @@
  ".gitignore" :> <<".", "g", "i", "t", "i", "g", "n", "o", "r", "e">> @@
  "debug.log" :> <<"d", "e", "b", "u", "g", ".", "l", "o", "g">> @@
  "a.tmp" :> <<"a", ".", "t", "m", "p">> @@
  "b.temp" :> <<"b", ".", "t", "e", "m", "p">> @@
  ".DS_Store" :> <<".", "D", "S", "_", "S", "t", "o", "r", "e">> @@
  "node_modules/x/i.js" :> <<"n", "o", "d", "e", "_", "m", "o", "d", "u", "l", "e", "s", "/", "x", "/", "i", ".", "j", "s">> @@
  "lock" :> <<"l", "o", "c", "k">> @@
  ".lock" :> <<".", "l", "o", "c", "k">> @@
  ".min.js" :> <<".", "m", "i", "n", ".", "j", "s">> @@
  ".min.css" :> <<".", "m", "i", "n", ".", "c", "s", "s">> @@
  ".bundle.js" :> <<".", "b", "u", "n", "d", "l", "e", ".", "j", "s">> @@
  ".bundle.css" :> <<".", "b", "u", "n", "d", "l", "e", ".", "c", "s", "s">> @@
  "node_modules" :> <<"n", "o", "d", "e", "_", "m", "o", "d", "u", "l", "e", "s">> @@
  ".git" :> <<".", "g", "i", "t">> @@
  ".log" :> <<".", "l", "o", "g">> @@
  ".tmp" :> <<".", "t", "m", "p">> @@
  ".temp" :> <<".", "t", "e", "m", "p">>

\* s ends with the characters of t
EndsWith(s, t) ==
  /\ Len(t) <= Len(s)
  /\ SubSeq(s, Len(s) - Len(t) + 1, Len(s)) = t

\* t occurs somewhere in s
Contains(s, t) ==
  \E i \in 1..(Len(s) - Len(t) + 1) : SubSeq(s, i, i + Len(t) - 1) = t

\* ------------------------------------------------------------- file filter
\* the regular expressions, each as its literal alternatives and whether it
\* is anchored at the end of the string ($)
EXCLUDED_FILE_PATTERNS == <<
  [alts |-> {".lock"},                      anchored |-> TRUE],
  [alts |-> {"package-lock.json"},          anchored |-> TRUE],
  [alts |-> {"yarn.lock"},                  anchored |-> TRUE],
  [alts |-> {"pnpm-lock.yaml"},             anchored |-> TRUE],
  [alts |-> {".min.js", ".min.css"},        anchored |-> TRUE],
  [alts |-> {".bundle.js", ".bundle.css"},  anchored |-> TRUE],
  [alts |-> {"node_modules"},               anchored |-> FALSE],
  [alts |-> {".git"},                       anchored |-> FALSE],
  [alts |-> {".DS_Store"},                  anchored |-> TRUE],
  [alts |-> {".log"},                       anchored |-> TRUE],
  [alts |-> {".tmp"},                       anchored |-> TRUE],
  [alts |-> {".temp"},                      anchored |-> TRUE] >>

MAX_FILE_SIZE == 50000

\* pattern.test(filename)
PatternTest(pattern, filename) ==
  \E a \in pattern.alts :
    IF pattern.anchored THEN EndsWith(Chars[filename], Chars[a])
    ELSE Contains(Chars[filename], Chars[a])

\* EXCLUDED_FILE_PATTERNS.some(pattern => pattern.test(filename))
MatchesExcludedPattern(filename) ==
  \E k \in 1..Len(EXCLUDED_FILE_PATTERNS) :
    PatternTest(EXCLUDED_FILE_PATTERNS[k], filename)

\* bug variant: the patterns are consulted only for files that carry a patch
shouldExcludeFile_PatchFirst(filename, patch) ==
  IF ~PatchTruthy(patch) THEN FALSE
  ELSE IF MatchesExcludedPattern(filename) THEN TRUE
  ELSE patch.length > MAX_FILE_SIZE

\* bug variant: the size rule is not strict (>= instead of >)
shouldExcludeFile_NotStrict(filename, patch) ==
  IF MatchesExcludedPattern(filename) THEN TRUE
  ELSE IF PatchTruthy(patch) /\ patch.length >= MAX_FILE_SIZE THEN TRUE
  ELSE FALSE

shouldExcludeFile(filename, patch) ==
  IF MatchesExcludedPattern(filename) THEN TRUE
  ELSE IF PatchTruthy(patch) /\ patch.length > MAX_FILE_SIZE THEN TRUE
  ELSE FALSE

\* the core.info lines shouldExcludeFile writes for one file
shouldExcludeFileLog(filename, patch) ==
  IF ~MatchesExcludedPattern(filename)
     /\ PatchTruthy(patch) /\ patch.length > MAX_FILE_SIZE
  THEN << "Skipping large file: " \o filename \o " ("
          \o ToString(patch.length) \o " characters)" >>
  ELSE << >>

\* files.filter(file => !shouldExcludeFile(file.filename, file.patch))
RECURSIVE FilterFiles(_)
FilterFiles(fs) ==
  IF fs = << >> THEN << >>
  ELSE IF shouldExcludeFile(Head(fs).filename, Head(fs).patch)
       THEN FilterFiles(Tail(fs))
       ELSE << Head(fs) >> \o FilterFiles(Tail(fs))

\* the core.info lines written while filtering, in file order
RECURSIVE FilterLog(_)
FilterLog(fs) ==
  IF fs = << >> THEN << >>
  ELSE shouldExcludeFileLog(Head(fs).filename, Head(fs).patch)
       \o FilterLog(Tail(fs))

\* ---------------------------------------------------------- prompt builder
\* files.reduce((sum, file) => sum + file.changes, 0)
RECURSIVE SumChanges(_)
SumChanges(fs) ==
  IF fs = << >> THEN 0 ELSE Head(fs).changes + SumChanges(Tail(fs))

\* the per-file block of file number index, for a file with a patch
FileBlock(file, index) ==
  << "**File " \o ToString(index) \o ": " \o file.filename \o "** ("
       \o file.status \o ", +" \o ToString(file.additions) \o "/-"
       \o ToString(file.deletions) \o ")",
     "<fence>diff",
     PatchText(file.patch),
     "<fence>",
     "" >>

\* files.forEach((file, index) => { if (file.patch) prompt += block })
RECURSIVE FileBlocks(_, _)
FileBlocks(fs, index) ==
  IF fs = << >> THEN << >>
  ELSE (IF PatchTruthy(Head(fs).patch) THEN FileBlock(Head(fs), index)
        ELSE << >>)
       \o FileBlocks(Tail(fs), index + 1)

\* position of the two counts in the prompt header
PromptFileCountLine == 6

PromptTotalChangesLine == 7

PromptHeader(fileCount, totalChanges, prTitle, prBody) ==
  << "You are an expert code reviewer with extensive experience in software development. Please review the following pull request changes and provide constructive, actionable feedback.",
     "",
     "**Pull Request Context:**",
     "- Title: " \o (IF Truthy(prTitle) THEN prTitle ELSE "No title provided"),
     "- Description: "
       \o (IF Truthy(prBody) THEN prBody ELSE "No description provided"),
     "- Files changed: " \o ToString(fileCount),
     "- Total changes: " \o ToString(totalChanges) \o " lines",
     "",
     "**Review Guidelines:**",
     "1. Focus on code quality, security, performance, and maintainability",
     "2. Identify potential bugs, edge cases, and improvements",
     "3. Check for proper error handling and validation",
     "4. Ensure code follows best practices and conventions",
     "5. Suggest specific improvements with clear explanations",
     "6. Be constructive and professional in your feedback",
     "",
     "**Code Changes to Review:**",
     "" >>

PromptClosing ==
  << "Please provide a comprehensive review covering:",
     "- Overall assessment of the changes",
     "- Specific issues or concerns",
     "- Suggestions for improvement",
     "- Security considerations (if any)",
     "- Performance implications (if any)",
     "",
     "Format your response in a clear, structured way that will be helpful for the developer." >>

\* the files that get a per-file block
RECURSIVE WithPatch(_)
WithPatch(fs) ==
  IF fs = << >> THEN << >>
  ELSE (IF PatchTruthy(Head(fs).patch) THEN << Head(fs) >> ELSE << >>)
       \o WithPatch(Tail(fs))

\* bug variant: the header counts only the files that get a block
createReviewPrompt_CountBlocks(fs, prTitle, prBody) ==
  PromptHeader(Len(WithPatch(fs)), SumChanges(WithPatch(fs)), prTitle, prBody)
  \o FileBlocks(fs, 1) \o PromptClosing

createReviewPrompt(fs, prTitle, prBody) ==
  PromptHeader(Len(fs), SumChanges(fs), prTitle, prBody)
  \o FileBlocks(fs, 1) \o PromptClosing

\* ------------------------------------------------------------ model client
\* a candidate of the response: content and parts may be missing; a part's
\* text is a string or Undefined
Cand(texts) == [hasContent |-> TRUE, hasParts |-> TRUE, parts |-> texts]

CandNoParts == [hasContent |-> TRUE, hasParts |-> FALSE, parts |-> << >>]

CandNoContent == [hasContent |-> FALSE, hasParts |-> FALSE, parts |-> << >>]

\* a parsed response body (GeminiResponse, or the JSON value null)
Body(hasError, errorMessage, hasCandidates, candidates) ==
  [isNull |-> FALSE, hasError |-> hasError, errorMessage |-> errorMessage,
   hasCandidates |-> hasCandidates, candidates |-> candidates]

NullBody ==
  [isNull |-> TRUE, hasError |-> FALSE, errorMessage |-> Undefined,
   hasCandidates |-> FALSE, candidates |-> << >>]

\* data?.candidates?.[0]?.content?.parts?.[0]?.text
FirstCandidateText(data) ==
  IF ~data.hasCandidates \/ Len(data.candidates) = 0 THEN Undefined
  ELSE LET c == data.candidates[1] IN
       IF ~c.hasContent \/ ~c.hasParts \/ Len(c.parts) = 0 THEN Undefined
       ELSE c.parts[1]

\* what the try block does with a parsed body: the text it returns or the
\* message of the error it throws
Returned(text) == [threw |-> FALSE, value |-> text]

Threw(message) == [threw |-> TRUE, value |-> message]

\* bug variant: the error field of the body is not looked at
ReviewOfBody_IgnoreErrorField(data) ==
  IF data.isNull
  THEN Threw("Cannot read properties of null (reading 'error')")
  ELSE IF ~Truthy(FirstCandidateText(data))
  THEN Threw("No review content received from Gemini API")
  ELSE Returned(FirstCandidateText(data))

\* bug variant: only a missing text counts as no content, "" is returned
ReviewOfBody_EmptyTextAccepted(data) ==
  IF data.isNull
  THEN Threw("Cannot read properties of null (reading 'error')")
  ELSE IF data.hasError
  THEN Threw("Gemini API error: " \o Str(data.errorMessage))
  ELSE IF FirstCandidateText(data) = Undefined
  THEN Threw("No review content received from Gemini API")
  ELSE Returned(FirstCandidateText(data))

ReviewOfBody(data) ==
  IF data.isNull
  THEN Threw("Cannot read properties of null (reading 'error')")
  ELSE IF data.hasError
  THEN Threw("Gemini API error: " \o Str(data.errorMessage))
  ELSE IF ~Truthy(FirstCandidateText(data))
  THEN Threw("No review content received from Gemini API")
  ELSE Returned(FirstCandidateText(data))

\* the message thrown for a response whose status is not a success
RequestFailedMessage(response, errorText) ==
  "Gemini API request failed: " \o ToString(response.status) \o " "
  \o response.statusText \o " - " \o errorText

\* catch (error) of getGeminiReview: every Error is rethrown wrapped
WrapReviewError(message) == "Failed to get AI review: " \o message

\* ------------------------------------------------------------ orchestrator
\* bug variant: the total is taken over all changed files
Summary_TotalOfAll(reviewed, all) ==
  << "**Review Summary:**",
     "- Files reviewed: " \o ToString(Len(reviewed)) \o "/" \o ToString(Len(all)),
     "- Total changes: " \o ToString(SumChanges(all)) \o " lines",
     "- Files excluded: " \o ToString(Len(all) - Len(reviewed))
       \o " (large files, lock files, etc.)",
     "" >>

\* the summary template of the comment
Summary(reviewed, all) ==
  << "**Review Summary:**",
     "- Files reviewed: " \o ToString(Len(reviewed)) \o "/" \o ToString(Len(all)),
     "- Total changes: " \o ToString(SumChanges(reviewed)) \o " lines",
     "- Files excluded: " \o ToString(Len(all) - Len(reviewed))
       \o " (large files, lock files, etc.)",
     "" >>

CommentHeader == << "**AI Code Review**", "" >>

\* bug variant: a signature line is appended after the review text
CommentBody_Footer(reviewed, all, text) ==
  CommentHeader \o Summary(reviewed, all) \o << text, "-- AI review bot" >>

\* body: the header, ${summary} and ${reviewText}
CommentBody(reviewed, all, text) ==
  CommentHeader \o Summary(reviewed, all) \o << text >>

\* if (filesToReview.length === 0) return
NothingToReview_AllFiles(all, reviewed) == Len(all) = 0

NothingToReview(all, reviewed) == Len(reviewed) = 0

\* ------------------------------------------------------------------ inputs
\* a FileChange of the source-control service
File(filename, patch, status, additions, deletions) ==
  [filename |-> filename, patch |-> patch, status |-> status,
   additions |-> additions, deletions |-> deletions,
   changes |-> additions + deletions]

\* the changed files a pull request is made of: a reviewable file, a file
\* without a patch, a lock file and a file with an oversized patch
PRFileKinds ==
  { File("src/index.ts", PatchOf(120), "modified", 2, 1),
    File("README.md", NoPatch, "renamed", 0, 0),
    File("yarn.lock", PatchOf(900), "modified", 3, 2),
    File("admin.js", PatchOf(MAX_FILE_SIZE + 1), "added", 7, 0) }

\* all sequences over S of length at most n
SeqsUpTo(S, n) == UNION { [1..k -> S] : k \in 0..n }

FileLists == SeqsUpTo(PRFileKinds, MaxFiles)

\* core.getInput("gemini_api_key"): "" when the input is not set
GeminiInputs == { "", "AIza-key" }

\* process.env.GEMINI_API_KEY and process.env.GITHUB_TOKEN
EnvGeminiKeys == { Undefined, "", "AIza-key" }

EnvGithubTokens == { Undefined, "ghs_token" }

\* context.payload.pull_request
NoPullRequest ==
  [present |-> FALSE, number |-> 0, title |-> Undefined, body |-> Undefined]

\* (a pull request without a description; createReviewPrompt is exercised on
\* titles and descriptions of every kind on its own)
PullRequests ==
  { NoPullRequest,
    [present |-> TRUE, number |-> 7, title |-> "Fix login", body |-> Undefined] }

\* messages of the errors the two collaborators reject with
ApiErrorMessages == { "", "Not Found" }

NetworkErrorMessages == { "request to generativelanguage.googleapis.com failed" }

JsonErrorMessages == { "invalid json response body" }

\* a response body: its text, whether the text is JSON, and its JSON value
Json(raw, value) == [raw |-> raw, valid |-> TRUE, json |-> value]

NotJson(raw) == [raw |-> raw, valid |-> FALSE, json |-> NullBody]

\* bodies the generative-text service answers a success status with
GeminiBodies ==
  { Json("{\"candidates\":[{\"content\":{\"parts\":[{\"text\":\"LGTM\"}]}}]}",
         Body(FALSE, Undefined, TRUE, << Cand(<< "LGTM" >>) >>)),
    Json("{\"candidates\":[{\"content\":{\"parts\":[{\"text\":\"Needs work\"},{\"text\":\"second part\"}]}},{\"content\":{\"parts\":[{\"text\":\"other\"}]}}]}",
         Body(FALSE, Undefined, TRUE,
              << Cand(<< "Needs work", "second part" >>), Cand(<< "other" >>) >>)),
    Json("{\"candidates\":[{\"content\":{\"parts\":[{\"text\":\"\"}]}}]}",
         Body(FALSE, Undefined, TRUE, << Cand(<< "" >>) >>)),
    Json("{\"candidates\":[{\"content\":{\"parts\":[{\"text\":\"\"}]}},{\"content\":{\"parts\":[{\"text\":\"other\"}]}}]}",
         Body(FALSE, Undefined, TRUE, << Cand(<< "" >>), Cand(<< "other" >>) >>)),
    Json("{\"candidates\":[{\"content\":{\"parts\":[{}]}}]}",
         Body(FALSE, Undefined, TRUE, << Cand(<< Undefined >>) >>)),
    Json("{\"candidates\":[{\"content\":{\"parts\":[]}}]}",
         Body(FALSE, Undefined, TRUE, << Cand(<< >>) >>)),
    Json("{\"candidates\":[{\"content\":{}}]}",
         Body(FALSE, Undefined, TRUE, << CandNoParts >>)),
    Json("{\"candidates\":[{}]}",
         Body(FALSE, Undefined, TRUE, << CandNoContent >>)),
    Json("{\"candidates\":[]}", Body(FALSE, Undefined, TRUE, << >>)),
    Json("{}", Body(FALSE, Undefined, FALSE, << >>)),
    Json("{\"error\":{\"message\":\"API key not valid\"}}",
         Body(TRUE, "API key not valid", FALSE, << >>)),
    Json("{\"error\":{}}", Body(TRUE, Undefined, FALSE, << >>)),
    Json("{\"error\":{\"message\":\"blocked\"},\"candidates\":[{\"content\":{\"parts\":[{\"text\":\"LGTM\"}]}}]}",
         Body(TRUE, "blocked", TRUE, << Cand(<< "LGTM" >>) >>)),
    Json("null", NullBody),
    NotJson("") }

\* bodies it answers a non-success status with
GeminiErrorBodies ==
  { Json("{\"error\":{\"message\":\"quota exceeded\"}}",
         Body(TRUE, "quota exceeded", FALSE, << >>)),
    NotJson("<html>Bad Gateway</html>"),
    NotJson("") }

\* the responses of the generative-text service
NoResponse ==
  [received |-> FALSE, ok |-> FALSE, status |-> 0, statusText |-> "",
   body |-> NotJson("")]

Responses ==
  { [received |-> TRUE, ok |-> TRUE, status |-> 200, statusText |-> "OK",
     body |-> b] : b \in GeminiBodies }
  \cup
  { [received |-> TRUE, ok |-> FALSE, status |-> 429,
     statusText |-> "Too Many Requests", body |-> b] : b \in GeminiErrorBodies }

NoData == [parsed |-> FALSE, body |-> NullBody]

NoResult == [state |-> "none", value |-> ""]

\* inputs of the two pure functions when they are exercised on their own
FilterFilenames == DOMAIN Chars \ 
  { ".lock", ".min.js", ".min.css", ".bundle.js", ".bundle.css", ".git",
    ".log", ".tmp", ".temp", "node_modules" }

FilterPatches ==
  { NoPatch, PatchOf(0), PatchOf(1), PatchOf(MAX_FILE_SIZE - 1),
    PatchOf(MAX_FILE_SIZE), PatchOf(MAX_FILE_SIZE + 1),
    PatchOf(2 * MAX_FILE_SIZE) }

PromptFileKinds ==
  { File(n, p, "modified", a, 0) :
      n \in { "src/index.ts", "README.md" },
      p \in { NoPatch, PatchOf(0), PatchOf(120) },
      a \in 0..MaxChanges }

PromptTitles == { Undefined, "", "Fix login" }

PromptBodies == { Undefined, "Adds a null check" }

NoCall ==
  [fn |-> "none", done |-> FALSE, filename |-> "", patch |-> NoPatch,
   files |-> << >>, prTitle |-> Undefined, prBody |-> Undefined,
   exclude |-> FALSE, log |-> << >>, prompt |-> << >>]

FilterCalls ==
  { [NoCall EXCEPT !.fn = "shouldExcludeFile", !.filename = n, !.patch = p] :
      n \in FilterFilenames, p \in FilterPatches }

PromptCalls ==
  { [NoCall EXCEPT !.fn = "createReviewPrompt", !.files = fs,
                   !.prTitle = t, !.prBody = b] :
      fs \in SeqsUpTo(PromptFileKinds, MaxPromptFiles),
      t \in PromptTitles, b \in PromptBodies }

\* ------------------------------------------------------------------- state
VARIABLES
  pc,             \* where run() is: start, one of its awaits, or done
  geminiKey,      \* validateInputs().geminiKey
  githubToken,    \* validateInputs().githubToken
  pr,             \* context.payload.pull_request
  files,          \* data of pulls.listFiles
  filesToReview,  \* files that pass the filter
  reviewPrompt,   \* createReviewPrompt(filesToReview, prTitle, prBody)
  listFilesCalls, \* number of pulls.listFiles requests issued
  httpRequests,   \* the POSTs issued to the generative-text service
  response,       \* the response of fetch
  data,           \* the parsed body of the response
  geminiResult,   \* how getGeminiReview ended: none, returned, threw
  commentCalls,   \* the bodies of the issues.createComment requests issued
  prComments,     \* the comments that exist on the pull request
  failed,         \* the messages core.setFailed was called with
  errorLog,       \* the error lines of the log
  infoLog,        \* the core.info lines of the log
  failedAt,       \* the stage whose failure ended the run, or none
  call            \* a call of a pure function on its own

runVars ==
  << pc, geminiKey, githubToken, pr, files, filesToReview, reviewPrompt,
     listFilesCalls, httpRequests, response, data, geminiResult,
     commentCalls, prComments, failed, errorLog, infoLog, failedAt >>

vars ==
  << pc, geminiKey, githubToken, pr, files, filesToReview, reviewPrompt,
     listFilesCalls, httpRequests, response, data, geminiResult,
     commentCalls, prComments, failed, errorLog, infoLog, failedAt, call >>

InitRun ==
  /\ pc = "start"
  /\ geminiKey = Undefined
  /\ githubToken = Undefined
  /\ pr = NoPullRequest
  /\ files = << >>
  /\ filesToReview = << >>
  /\ reviewPrompt = << >>
  /\ listFilesCalls = 0
  /\ httpRequests = << >>
  /\ response = NoResponse
  /\ data = NoData
  /\ geminiResult = NoResult
  /\ commentCalls = << >>
  /\ prComments = << >>
  /\ failed = << >>
  /\ errorLog = << >>
  /\ infoLog = << >>
  /\ failedAt = "none"

Init == InitRun /\ call = NoCall

\* ------------------------------------------------------------ top-level catch
\* bug variant: the error is logged but no failure is signalled
CatchError_NoSignal(message) ==
  LET errorMessage == IF message # "" THEN message ELSE "Unknown error occurred"
  IN /\ errorLog' = Append(errorLog, "Error: " \o errorMessage)
     /\ failed' = failed
     /\ pc' = "done"

\* bug variant: the error is swallowed
CatchError_Swallow(message) ==
  /\ errorLog' = errorLog
  /\ failed' = failed
  /\ pc' = "done"

\* catch (error) of run(): core.error, then core.setFailed, which records the
\* failure and writes the message to the error log itself
CatchError(message) ==
  LET errorMessage == IF message # "" THEN message ELSE "Unknown error occurred"
  IN /\ errorLog' = errorLog \o << "Error: " \o errorMessage, errorMessage >>
     /\ failed' = Append(failed, errorMessage)
     /\ pc' = "done"

\* const geminiKey = core.getInput("gemini_api_key") || process.env.GEMINI_API_KEY
KeyOf(input, envKey) == IF Truthy(input) THEN input ELSE envKey

\* validateInputs(): the message of the error it throws, or "" when it returns
validateInputs(input, envKey, token) ==
  IF ~Truthy(KeyOf(input, envKey))
  THEN "Gemini API key is missing. Please provide it via 'gemini_api_key' input or 'GEMINI_API_KEY' environment variable."
  ELSE IF ~Truthy(token)
  THEN "GitHub token is missing. This should be automatically provided by GitHub Actions."
  ELSE ""

\* ----------------------------------------------------------------- run()
\* from the start of run() to its first await: validateInputs, the
\* pull-request check and the pulls.listFiles request
RunStart ==
  /\ pc = "start"
  /\ \E input \in GeminiInputs, envKey \in EnvGeminiKeys,
        token \in EnvGithubTokens, pull \in PullRequests :
       LET thrown == validateInputs(input, envKey, token) IN
       IF thrown # ""
       THEN /\ CatchError(thrown)
            /\ failedAt' = "validate"
            /\ infoLog' = Append(infoLog, "Starting AI Code Review Bot...")
            /\ UNCHANGED << geminiKey, githubToken, pr, listFilesCalls >>
       ELSE /\ geminiKey' = KeyOf(input, envKey)
            /\ githubToken' = token
            /\ pr' = pull
            /\ IF ~pull.present
               THEN /\ failed' =
                         Append(failed, "This action only runs on pull_request events.")
                    /\ errorLog' =
                         Append(errorLog, "This action only runs on pull_request events.")
                    /\ pc' = "done"
                    /\ failedAt' = "context"
                    /\ infoLog' = infoLog \o
                         << "Starting AI Code Review Bot...",
                            "Input validation passed" >>
                    /\ UNCHANGED listFilesCalls
               ELSE /\ listFilesCalls' = listFilesCalls + 1
                    /\ pc' = "awaitListFiles"
                    /\ infoLog' = infoLog \o
                         << "Starting AI Code Review Bot...",
                            "Input validation passed",
                            "Reviewing PR #" \o ToString(pull.number) \o ": \""
                              \o Str(pull.title) \o "\"",
                            "Fetching changed files..." >>
                    /\ UNCHANGED << failed, errorLog, failedAt >>
  /\ UNCHANGED << files, filesToReview, reviewPrompt, httpRequests, response,
                  data, geminiResult, commentCalls, prComments, call >>

\* pulls.listFiles resolves: filter, and either stop with nothing to review
\* or build the prompt and issue the POST of getGeminiReview
ListFilesResolves ==
  /\ pc = "awaitListFiles"
  /\ \E fs \in FileLists :
       LET reviewed == FilterFiles(fs)
           found == "Found " \o ToString(Len(fs)) \o " changed files, reviewing "
                    \o ToString(Len(reviewed)) \o " files"
       IN /\ files' = fs
          /\ filesToReview' = reviewed
          /\ IF NothingToReview(fs, reviewed)
             THEN /\ infoLog' = infoLog \o FilterLog(fs) \o
                       << found, "No files to review (all files were filtered out)" >>
                  /\ pc' = "done"
                  /\ UNCHANGED << reviewPrompt, httpRequests >>
             ELSE /\ reviewPrompt' = createReviewPrompt(reviewed, pr.title, pr.body)
                  /\ httpRequests' = Append(httpRequests,
                       [method |-> "POST", key |-> geminiKey,
                        text |-> createReviewPrompt(reviewed, pr.title, pr.body)])
                  /\ infoLog' = infoLog \o FilterLog(fs) \o
                       << found, "Getting AI review from Gemini..." >>
                  /\ pc' = "awaitFetch"
  /\ UNCHANGED << geminiKey, githubToken, pr, listFilesCalls, response, data,
                  geminiResult, commentCalls, prComments, failed, errorLog,
                  failedAt, call >>

\* pulls.listFiles rejects
ListFilesRejects ==
  /\ pc = "awaitListFiles"
  /\ \E message \in ApiErrorMessages : CatchError(message)
  /\ failedAt' = "listFiles"
  /\ UNCHANGED << geminiKey, githubToken, pr, files, filesToReview,
                  reviewPrompt, listFilesCalls, httpRequests, response, data,
                  geminiResult, commentCalls, prComments, infoLog, call >>

\* fetch resolves with the status line; the body is read next, as text when
\* the status is not a success and as JSON otherwise
FetchResolves ==
  /\ pc = "awaitFetch"
  /\ \E r \in Responses :
       /\ response' = r
       /\ pc' = IF ~r.ok THEN "awaitText" ELSE "awaitJson"
  /\ UNCHANGED << geminiKey, githubToken, pr, files, filesToReview,
                  reviewPrompt, listFilesCalls, httpRequests, data,
                  geminiResult, commentCalls, prComments, failed, errorLog,
                  infoLog, failedAt, call >>

\* getGeminiReview throws: its catch wraps the message, the catch of run()
\* reports it (fetch and the body readers reject with Error objects only, so
\* the branch for a thrown non-Error is never taken)
ReviewThrows(message) ==
  /\ geminiResult' = [state |-> "threw", value |-> WrapReviewError(message)]
  /\ CatchError(WrapReviewError(message))
  /\ failedAt' = "model"

\* fetch rejects
FetchRejects ==
  /\ pc = "awaitFetch"
  /\ \E message \in NetworkErrorMessages : ReviewThrows(message)
  /\ UNCHANGED << geminiKey, githubToken, pr, files, filesToReview,
                  reviewPrompt, listFilesCalls, httpRequests, response, data,
                  commentCalls, prComments, infoLog, call >>

\* response.text() resolves: the request-failed error is thrown
TextResolves ==
  /\ pc = "awaitText"
  /\ ReviewThrows(RequestFailedMessage(response, response.body.raw))
  /\ UNCHANGED << geminiKey, githubToken, pr, files, filesToReview,
                  reviewPrompt, listFilesCalls, httpRequests, response, data,
                  commentCalls, prComments, infoLog, call >>

\* response.text() rejects
TextRejects ==
  /\ pc = "awaitText"
  /\ \E message \in NetworkErrorMessages : ReviewThrows(message)
  /\ UNCHANGED << geminiKey, githubToken, pr, files, filesToReview,
                  reviewPrompt, listFilesCalls, httpRequests, response, data,
                  commentCalls, prComments, infoLog, call >>

\* response.json() resolves: the rest of getGeminiReview, then the summary
\* and the issues.createComment request
JsonResolves ==
  /\ pc = "awaitJson"
  /\ response.body.valid
  /\ LET d == response.body.json
         review == ReviewOfBody(d) IN
       /\ data' = [parsed |-> TRUE, body |-> d]
       /\ IF review.threw
          THEN /\ ReviewThrows(review.value)
               /\ UNCHANGED << commentCalls, infoLog >>
          ELSE /\ geminiResult' = [state |-> "returned", value |-> review.value]
               /\ commentCalls' = Append(commentCalls,
                    [issue_number |-> pr.number,
                     body |-> CommentBody(filesToReview, files, review.value)])
               /\ infoLog' = Append(infoLog, "Posting review comment...")
               /\ pc' = "awaitCreateComment"
               /\ UNCHANGED << failed, errorLog, failedAt >>
  /\ UNCHANGED << geminiKey, githubToken, pr, files, filesToReview,
                  reviewPrompt, listFilesCalls, httpRequests, response,
                  prComments, call >>

\* response.json() rejects: the body is not JSON, or reading it fails
JsonRejects ==
  /\ pc = "awaitJson"
  /\ \E message \in JsonErrorMessages \cup NetworkErrorMessages :
       /\ message \in JsonErrorMessages => ~response.body.valid
       /\ ReviewThrows(message)
  /\ UNCHANGED << geminiKey, githubToken, pr, files, filesToReview,
                  reviewPrompt, listFilesCalls, httpRequests, response, data,
                  commentCalls, prComments, infoLog, call >>

\* issues.createComment resolves: the comment exists on the pull request
CreateCommentResolves ==
  /\ pc = "awaitCreateComment"
  /\ prComments' = Append(prComments, commentCalls[Len(commentCalls)])
  /\ infoLog' = Append(infoLog, "Review posted successfully!")
  /\ pc' = "done"
  /\ UNCHANGED << geminiKey, githubToken, pr, files, filesToReview,
                  reviewPrompt, listFilesCalls, httpRequests, response, data,
                  geminiResult, commentCalls, failed, errorLog, failedAt, call >>

\* issues.createComment rejects
CreateCommentRejects ==
  /\ pc = "awaitCreateComment"
  /\ \E message \in ApiErrorMessages : CatchError(message)
  /\ failedAt' = "comment"
  /\ UNCHANGED << geminiKey, githubToken, pr, files, filesToReview,
                  reviewPrompt, listFilesCalls, httpRequests, response, data,
                  geminiResult, commentCalls, prComments, infoLog, call >>

Next ==
  \/ RunStart
  \/ ListFilesResolves
  \/ ListFilesRejects
  \/ FetchResolves
  \/ FetchRejects
  \/ TextResolves
  \/ TextRejects
  \/ JsonResolves
  \/ JsonRejects
  \/ CreateCommentResolves
  \/ CreateCommentRejects

Spec == Init /\ [][Next]_vars

\* ------------------------------------------- the pure functions on their own
InitPure == InitRun /\ call \in FilterCalls \cup PromptCalls

CallShouldExcludeFile ==
  /\ call.fn = "shouldExcludeFile" /\ ~call.done
  /\ call' = [call EXCEPT
               !.done = TRUE,
               !.exclude = shouldExcludeFile(call.filename, call.patch),
               !.log = shouldExcludeFileLog(call.filename, call.patch)]
  /\ UNCHANGED runVars

CallCreateReviewPrompt ==
  /\ call.fn = "createReviewPrompt" /\ ~call.done
  /\ call' = [call EXCEPT
               !.done = TRUE,
               !.prompt = createReviewPrompt(call.files, call.prTitle, call.prBody)]
  /\ UNCHANGED runVars

NextPure == CallShouldExcludeFile \/ CallCreateReviewPrompt

SpecPure == InitPure /\ [][NextPure]_vars

\* ------------------------------------------------------------------ claims
\* the indices of the changed files the filter lets through
ReviewedIndices(fs) ==
  { i \in DOMAIN fs : ~shouldExcludeFile(fs[i].filename, fs[i].patch) }

\* the sum of the change counts of the files at the given indices
RECURSIVE ChangesAt(_, _)
ChangesAt(fs, I) ==
  IF I = {} THEN 0
  ELSE LET i == CHOOSE j \in I : TRUE
       IN fs[i].changes + ChangesAt(fs, I \ {i})

\* the body has a first candidate whose first part has a non-empty text
HasFirstText(body) ==
  /\ ~body.isNull
  /\ body.hasCandidates
  /\ Len(body.candidates) >= 1
  /\ body.candidates[1].hasContent
  /\ body.candidates[1].hasParts
  /\ Len(body.candidates[1].parts) >= 1
  /\ body.candidates[1].parts[1] # Undefined
  /\ body.candidates[1].parts[1] # ""

\* pulls.listFiles has resolved in this run
Listed == pc \notin { "start", "awaitListFiles" }
          /\ failedAt \notin { "validate", "context", "listFiles" }

\* C1: when the body of the generative-text service's response carries an
\* error field, under a success status or not, no createComment request is
\* ever made, and once the body has been read the run has ended in failure
\* (core.setFailed was called once).
C1_ErrorFieldFailsRun ==
  (response.received /\ response.body.valid /\ response.body.json.hasError) =>
    /\ commentCalls = << >>
    /\ prComments = << >>
    /\ pc \in { "awaitText", "awaitJson", "done" }
    /\ pc = "done" => Len(failed) = 1 /\ failedAt = "model"

\* an error field next to a usable candidate, under status 200
C1_Witness ==
  /\ pc = "done"
  /\ response.ok
  /\ data.parsed /\ data.body.hasError /\ HasFirstText(data.body)
  /\ failedAt = "model"
  /\ Len(failed) = 1

\* C2: whichever stage fails (credential validation, pull-request check,
\* list changed files, model invocation, comment creation), no later stage
\* has been started, the run is over, and exactly one failure signal was
\* given; a run in which no stage failed gives no failure signal.
C2_FailureAbortsOnce ==
  /\ failedAt \in { "validate", "context" } =>
       listFilesCalls = 0 /\ httpRequests = << >> /\ commentCalls = << >>
  /\ failedAt = "validate" => pr = NoPullRequest
  /\ failedAt = "listFiles" =>
       files = << >> /\ httpRequests = << >> /\ commentCalls = << >>
  /\ failedAt = "model" => commentCalls = << >>
  /\ failedAt = "comment" => Len(commentCalls) = 1
  /\ failedAt # "none" => pc = "done" /\ Len(failed) = 1 /\ prComments = << >>
  /\ failedAt = "none" => failed = << >>

\* the model invocation fails after the files were listed
C2_Witness ==
  /\ failedAt = "model"
  /\ listFilesCalls = 1
  /\ Len(httpRequests) = 1
  /\ Len(failed) = 1

\* the three ways a run ends
EndsPosted ==
  /\ failed = << >>
  /\ Len(prComments) = 1
  /\ geminiResult.state = "returned"
  /\ prComments[1].body[Len(prComments[1].body)] = geminiResult.value

EndsNothingToReview ==
  /\ failed = << >>
  /\ Listed
  /\ filesToReview = << >>
  /\ httpRequests = << >>
  /\ commentCalls = << >>
  /\ prComments = << >>

EndsFailed ==
  /\ Len(failed) = 1
  /\ \E i \in DOMAIN errorLog : errorLog[i] = failed[1]
  /\ prComments = << >>

\* C3 as stated: a finished run is either a success with the review posted
\* or a signalled failure with a logged error message.
C3_TwoOutcomes ==
  pc = "done" => (EndsPosted /\ ~EndsFailed) \/ (EndsFailed /\ ~EndsPosted)

\* C3 amended: a finished run is exactly one of: a success with the review
\* posted, a success with nothing posted because no file passed the filter,
\* or a signalled failure with a logged error message.
C3_ThreeOutcomes ==
  pc = "done" =>
    \/ (EndsPosted /\ ~EndsNothingToReview /\ ~EndsFailed)
    \/ (EndsNothingToReview /\ ~EndsPosted /\ ~EndsFailed)
    \/ (EndsFailed /\ ~EndsPosted /\ ~EndsNothingToReview)

\* a run over changed files that are all filtered out ends as a success
C3_Witness ==
  /\ pc = "done"
  /\ files # << >>
  /\ EndsNothingToReview

\* C4: when the service answers with a success status, no error field and a
\* first candidate of non-empty text T, exactly one createComment request
\* is made; its body is the header, then the summary template, then T as
\* the last element; and the comment on the pull request, once the request
\* has succeeded, is that one.
C4_CommentIsTemplateThenText ==
  (response.ok /\ data.parsed /\ ~data.body.isNull /\ ~data.body.hasError
     /\ HasFirstText(data.body)) =>
    LET T == data.body.candidates[1].parts[1] IN
    /\ Len(commentCalls) = 1
    /\ commentCalls[1].issue_number = pr.number
    /\ LET b == commentCalls[1].body IN
       /\ Len(b) = Len(CommentHeader) + Len(Summary(filesToReview, files)) + 1
       /\ SubSeq(b, 1, Len(CommentHeader)) = CommentHeader
       /\ SubSeq(b, Len(CommentHeader) + 1, Len(b) - 1)
            = Summary(filesToReview, files)
       /\ b[Len(b)] = T
    /\ Len(prComments) <= 1
    /\ (pc = "done" /\ failedAt = "none") => prComments = commentCalls

\* the first candidate of several is posted
C4_Witness ==
  /\ pc = "done"
  /\ Len(prComments) = 1
  /\ Len(data.body.candidates) = 2
  /\ prComments[1].body[Len(prComments[1].body)] = "Needs work"

\* C5: the summary of every comment request reads "Files reviewed: R/N" and
\* "Files excluded: E", N the number of changed files, R the number of
\* files the filter does not exclude, E = N - R, and "Total changes" is the
\* sum of the change counts of the R reviewed files.
C5_SummaryCounts ==
  \A c \in DOMAIN commentCalls :
    LET N == Len(files)
        R == Cardinality(ReviewedIndices(files))
        E == N - R
        b == commentCalls[c].body
    IN /\ R + E = N
       /\ R = Len(filesToReview)
       /\ b[4] = "- Files reviewed: " \o ToString(R) \o "/" \o ToString(N)
       /\ b[5] = "- Total changes: "
                 \o ToString(ChangesAt(files, ReviewedIndices(files))) \o " lines"
       /\ b[6] = "- Files excluded: " \o ToString(E)
                 \o " (large files, lock files, etc.)"

\* five changed files, one lock file and one oversized patch among them
C5_Witness ==
  /\ Len(commentCalls) = 1
  /\ Len(files) = 5
  /\ Cardinality({ i \in DOMAIN files : files[i].filename = "yarn.lock" }) = 1
  /\ Cardinality({ i \in DOMAIN files :
                     files[i].patch.length > MAX_FILE_SIZE }) = 1
  /\ commentCalls[1].body[4] = "- Files reviewed: 3/5"
  /\ commentCalls[1].body[6] = "- Files excluded: 2 (large files, lock files, etc.)"

\* the suffixes the claim lists
LockOrMinified(filename) ==
  \E suffix \in { ".lock", "package-lock.json", "yarn.lock", "pnpm-lock.yaml",
                  ".min.js", ".min.css" } :
    EndsWith(Chars[filename], Chars[suffix])

\* C6: for a filename ending in .lock, package-lock.json, yarn.lock,
\* pnpm-lock.yaml, .min.js or .min.css, shouldExcludeFile returns true
\* whatever the patch is: absent, empty, short or over the threshold.
C6_LockAndMinifiedExcluded ==
  (call.fn = "shouldExcludeFile" /\ call.done /\ LockOrMinified(call.filename))
    => call.exclude

\* a minified stylesheet without a patch
C6_Witness ==
  /\ call.fn = "shouldExcludeFile" /\ call.done
  /\ call.filename = "site.min.css"
  /\ call.patch = NoPatch
  /\ call.exclude

\* C7: a patch longer than 50,000 characters is excluded whatever the
\* filename; for a filename matching no pattern, a patch of exactly 50,000
\* characters, a shorter one or an absent one is not excluded.
C7_SizeRuleStrict ==
  (call.fn = "shouldExcludeFile" /\ call.done) =>
    /\ (call.patch.present /\ call.patch.length > 50000) => call.exclude
    /\ (~MatchesExcludedPattern(call.filename)
        /\ (~call.patch.present \/ call.patch.length <= 50000))
         => ~call.exclude

\* a patch of exactly 50,000 characters of a file no pattern matches
C7_Witness ==
  /\ call.fn = "shouldExcludeFile" /\ call.done
  /\ call.filename = "admin.js"
  /\ call.patch = PatchOf(50000)
  /\ ~call.exclude

\* the messages getGeminiReview can throw for a non-success status
NonSuccessMessages ==
  { WrapReviewError(RequestFailedMessage(response, response.body.raw)) }
  \cup { WrapReviewError(m) : m \in NetworkErrorMessages }

\* C8: once getGeminiReview has ended, it has returned the text if and only
\* if the status is a success, the body has no error field and the first
\* part of the first candidate has non-empty text; a non-success status
\* makes it throw without the body being parsed; an error field makes it
\* throw with the embedded message; a body without text makes it throw the
\* no-content error; and exactly one request was issued, never a second.
C8_ReviewOutcome ==
  /\ Len(httpRequests) <= 1
  /\ geminiResult.state # "none" =>
       /\ Len(httpRequests) = 1
       /\ httpRequests[1].method = "POST"
       /\ geminiResult.state = "returned" <=>
            (response.ok /\ data.parsed /\ ~data.body.hasError
             /\ HasFirstText(data.body))
       /\ geminiResult.state = "returned" =>
            geminiResult.value = data.body.candidates[1].parts[1]
       /\ (response.received /\ ~response.ok) =>
            /\ geminiResult.state = "threw"
            /\ ~data.parsed
            /\ geminiResult.value \in NonSuccessMessages
       /\ (data.parsed /\ ~data.body.isNull /\ data.body.hasError) =>
            /\ geminiResult.state = "threw"
            /\ geminiResult.value =
                 "Failed to get AI review: Gemini API error: "
                 \o Str(data.body.errorMessage)
       /\ (data.parsed /\ ~data.body.isNull /\ ~data.body.hasError
           /\ ~HasFirstText(data.body)) =>
            /\ geminiResult.state = "threw"
            /\ geminiResult.value =
                 "Failed to get AI review: No review content received from Gemini API"

\* a first candidate whose text is the empty string, then a usable one
C8_Witness ==
  /\ geminiResult.state = "threw"
  /\ data.parsed
  /\ Len(data.body.candidates) = 2
  /\ data.body.candidates[1].parts = << "" >>
  /\ Len(httpRequests) = 1

\* C9: the header of the prompt states the length of the file list and the
\* sum of the change counts of all its files, those without a patch
\* included, and only the files with a patch get a per-file block.
C9_PromptCounts ==
  (call.fn = "createReviewPrompt" /\ call.done) =>
    /\ call.prompt[PromptFileCountLine]
         = "- Files changed: " \o ToString(Len(call.files))
    /\ call.prompt[PromptTotalChangesLine]
         = "- Total changes: "
           \o ToString(ChangesAt(call.files, DOMAIN call.files)) \o " lines"
    /\ Cardinality({ i \in DOMAIN call.prompt : call.prompt[i] = "<fence>diff" })
         = Cardinality({ i \in DOMAIN call.files :
                           PatchTruthy(call.files[i].patch) })

\* two files, the first without a patch and with two changes
C9_Witness ==
  /\ call.fn = "createReviewPrompt" /\ call.done
  /\ Len(call.files) = 2
  /\ ~call.files[1].patch.present /\ call.files[1].changes = 2
  /\ PatchTruthy(call.files[2].patch) /\ call.files[2].changes = 1
  /\ call.prompt[PromptFileCountLine] = "- Files changed: 2"
  /\ call.prompt[PromptTotalChangesLine] = "- Total changes: 3 lines"

\* C10: once the changed files are listed: if the list is empty or the filter
\* excludes every file, the run is over with no request to the
\* generative-text service, no comment request and no failure signal;
\* otherwise the service has been invoked, also when no reviewed file has a
\* patch.
C10_NothingToReviewIsSilent ==
  Listed =>
    IF ReviewedIndices(files) = {}
    THEN /\ pc = "done"
         /\ httpRequests = << >>
         /\ commentCalls = << >>
         /\ prComments = << >>
         /\ failed = << >>
    ELSE Len(httpRequests) = 1

\* the only changed file has no patch and passes the filter
C10_Witness ==
  /\ Listed
  /\ Len(files) = 1
  /\ ~files[1].patch.present
  /\ Len(httpRequests) = 1
  /\ Len(filesToReview) = 1
====
